---- MODULE Spec2Model ----
(***************************************************************************)
(* RFQ exchange over a publish/subscribe substrate: the Requester          *)
(* (UserService), the Solver (SolverService) and the pricing utilities     *)
(* (UtilsService).                                                         *)
(*                                                                         *)
(* Numbers of the program are JavaScript doubles.  They are modelled as    *)
(* exact rationals [n |-> numerator, d |-> denominator > 0] in lowest      *)
(* terms, with d = 0 for the values that are not finite; the model's       *)
(* values stay far inside the range where the doubles of the examples are  *)
(* exact.                                                                  *)
(***************************************************************************)
EXTENDS Integers, Sequences, FiniteSets, TLC

(***************************************************************************)
(* Bounds of the model.                                                    *)
(***************************************************************************)
MaxSends == 1
MaxForeign == 1
MaxFails == 1
MaxStops == 1
MaxDisturbances == 1
MaxEarly == 1
RandomSteps == 1
FeeSteps == 2
MaxFromTokens == 2
MaxToTokens == 2
MaxAddresses == 3

(***************************************************************************)
(* Program constants.                                                      *)
(***************************************************************************)
RetryDelayMs == 3000
TickMs == 1500

(***************************************************************************)
(* Numbers.                                                                *)
(***************************************************************************)
Abs(x) == IF x < 0 THEN -x ELSE x

RECURSIVE Gcd(_, _)
Gcd(a, b) == IF b = 0 THEN a ELSE Gcd(b, a % b)

\* n / d as a double: [n |-> 1, d |-> 0] and [n |-> -1, d |-> 0] stand for
\* Infinity and -Infinity, [n |-> 0, d |-> 0] for NaN.
Rat(n, d) ==
    LET g == Gcd(Abs(n), Abs(d))
        s == IF d < 0 THEN -1 ELSE 1
    IN  IF g = 0 THEN [n |-> 0, d |-> 0]
        ELSE [n |-> (s * n) \div g, d |-> (s * d) \div g]

\* Whether x is a number other than Infinity, -Infinity and NaN.
IsFinite(x) == x.d # 0

IsNaN(x) == x.n = 0 /\ x.d = 0

Sign(i) == IF i < 0 THEN -1 ELSE IF i > 0 THEN 1 ELSE 0

Num(i) == [n |-> i, d |-> 1]

\* -x
RNeg(x) == [n |-> -x.n, d |-> x.d]

\* x * y: Infinity * 0 is NaN.
RMul(x, y) == Rat(x.n * y.n, x.d * y.d)

\* x / y: a number other than 0 over 0 is an infinity of its sign, 0 / 0
\* and Infinity / Infinity are NaN, a finite number over an infinity is 0.
RDiv(x, y) ==
    IF y.n = 0 /\ y.d # 0 THEN Rat(x.n, 0)
    ELSE Rat(x.n * y.d * Sign(y.n), x.d * Abs(y.n))

\* x + y: an infinity plus a finite number or itself is that infinity,
\* Infinity + -Infinity is NaN.
RAdd(x, y) ==
    IF IsFinite(x) /\ IsFinite(y) THEN Rat(x.n * y.d + y.n * x.d, x.d * y.d)
    ELSE IF IsNaN(x) \/ IsNaN(y) THEN Rat(0, 0)
    ELSE IF IsFinite(x) THEN y
    ELSE IF IsFinite(y) \/ x = y THEN x
    ELSE Rat(0, 0)

\* x - y
RSub(x, y) == RAdd(x, RNeg(y))

\* x <= y: false when either is NaN.
RLeq(x, y) ==
    IF IsNaN(x) \/ IsNaN(y) THEN FALSE
    ELSE IF IsFinite(x) /\ IsFinite(y) THEN x.n * y.d <= y.n * x.d
    ELSE x = y \/ x = Rat(-1, 0) \/ y = Rat(1, 0)

\* The JavaScript value undefined.
Undefined == [undefined |-> TRUE]

\* A test for undefined alone, which lets the number 0 through.
FalsyOnlyUndefined(x) == x = Undefined

\* JavaScript's !x for x a number or undefined: undefined and 0 are falsy.
Falsy(x) == x = Undefined \/ x.n = 0

(***************************************************************************)
(* Identity and topics.                                                    *)
(***************************************************************************)
Users == {"u1", "u2"}
Solver == "solver"
Services == Users \cup {Solver}

\* Public keys of the wallets Wallet.createRandom() can return.
Keys == {"k1", "k2", "k3", "k4"}

\* The keys a service's wallet is drawn from in the model.
KeysOf(s) ==
    CASE s = "u1" -> {"k1"}
      [] s = "u2" -> {"k2", "k3"}
      [] OTHER    -> {"k4"}

\* sha256(publicKey) in hex, cut to its first 8 characters: a many-to-one
\* function of the key (k1 and k3 stand for two keys whose digests share
\* their first 8 hex characters).
getBucketFromPublicKey(key) ==
    CASE key = "k1" -> "aaaaaaaa"
      [] key = "k2" -> "bbbbbbbb"
      [] key = "k3" -> "aaaaaaaa"
      [] key = "k4" -> "cccccccc"

RequestTopic == "/iLayer/1/rfq/proto"
ResponseTopic(b) == "/iLayer/1/" \o b \o "/proto"

(***************************************************************************)
(* Quote codec (protobufjs types built by getRequestType/getResponseType). *)
(* A payload on the wire is a record; kind tells what it holds.            *)
(***************************************************************************)
\* Writer.int32 / Reader.int32 on a number: the fraction is cut off,
\* towards zero (value >>> 0 for value >= 0, LongBits.fromNumber otherwise);
\* an infinity and NaN are written as 0.  The finite numbers of the model
\* are smaller than 2^31, where int32 wraps around.
Int32OnWire(x) ==
    IF ~IsFinite(x) THEN Num(0)
    ELSE IF x.n >= 0 THEN Num(x.n \div x.d) ELSE Num(-((-x.n) \div x.d))

EncodeRequestSide(side) ==
    [network |-> side.network,
     tokens  |-> [i \in 1..Len(side.tokens) |->
                    [address |-> side.tokens[i].address,
                     weight  |-> Int32OnWire(side.tokens[i].weight)]]]

EncodeResponseSide(side) ==
    [network |-> side.network,
     tokens  |-> [i \in 1..Len(side.tokens) |->
                    [address |-> side.tokens[i].address,
                     amount  |-> Int32OnWire(side.tokens[i].amount)]]]

\* requestType.encode(requestType.create(message)).finish()
EncodeRequest(r) ==
    [kind   |-> "request",
     bucket |-> r.bucket,
     from   |-> EncodeRequestSide(r.from),
     to     |-> EncodeRequestSide(r.to)]

\* responseType.encode(response).finish(), for a response that is an object
EncodeResponse(s) ==
    [kind   |-> "response",
     solver |-> s.solver,
     from   |-> EncodeResponseSide(s.from),
     to     |-> EncodeResponseSide(s.to)]

\* The two types are the same on the wire: field 1 of a message is a
\* string (bucket or solver), fields 2 and 3 its sides; field 1 of a token
\* is its address, field 2 an int32 (weight or amount).  Either type
\* decodes the bytes the other encoded.
WireString(p) == IF p.kind = "request" THEN p.bucket ELSE p.solver
WireNumber(token) ==
    IF "weight" \in DOMAIN token THEN token.weight ELSE token.amount

\* Type.decode(...).toJSON() leaves a repeated field out when it is empty.
DecodeRequestSide(side) ==
    IF Len(side.tokens) = 0
    THEN [network |-> side.network]
    ELSE [network |-> side.network,
          tokens  |-> [i \in 1..Len(side.tokens) |->
                        [address |-> side.tokens[i].address,
                         weight  |-> WireNumber(side.tokens[i])]]]

DecodeResponseSide(side) ==
    IF Len(side.tokens) = 0
    THEN [network |-> side.network]
    ELSE [network |-> side.network,
          tokens  |-> [i \in 1..Len(side.tokens) |->
                        [address |-> side.tokens[i].address,
                         amount  |-> WireNumber(side.tokens[i])]]]

\* Whether object side has a tokens property.
HasTokens(side) == "tokens" \in DOMAIN side

\* requestType.decode(payload).toJSON()
DecodeRequest(p) ==
    [bucket |-> WireString(p),
     from   |-> DecodeRequestSide(p.from),
     to     |-> DecodeRequestSide(p.to)]

\* responseType.decode(payload).toJSON()
DecodeResponse(p) ==
    [solver |-> WireString(p),
     from   |-> DecodeResponseSide(p.from),
     to     |-> DecodeResponseSide(p.to)]

EmptyPayload == [kind |-> "empty"]
MalformedPayload == [kind |-> "malformed"]

(***************************************************************************)
(* Pricing (UtilsService).                                                 *)
(***************************************************************************)
\* toLowerCase on one character (the addresses are ASCII).
LowerChar(c) ==
    CASE c = "A" -> "a" [] c = "B" -> "b" [] c = "C" -> "c" [] c = "D" -> "d"
      [] c = "E" -> "e" [] c = "F" -> "f" [] c = "G" -> "g" [] c = "H" -> "h"
      [] c = "I" -> "i" [] c = "J" -> "j" [] c = "K" -> "k" [] c = "L" -> "l"
      [] c = "M" -> "m" [] c = "N" -> "n" [] c = "O" -> "o" [] c = "P" -> "p"
      [] c = "Q" -> "q" [] c = "R" -> "r" [] c = "S" -> "s" [] c = "T" -> "t"
      [] c = "U" -> "u" [] c = "V" -> "v" [] c = "W" -> "w" [] c = "X" -> "x"
      [] c = "Y" -> "y" [] c = "Z" -> "z"
      [] OTHER -> c

\* Strings in lower case: the addresses of the message sendRequest builds
\* and the short addresses of the scenarios below.
InLowerCase ==
    {"0xc02aaa39b223fe8d0a0e5c4f27ead9083c756cc2",
     "0xa0b86991c6218b36c1d19d4a2e9eb0ce3606eb48",
     "0xdac17f958d2ee523a2206206994597c13d831ec7",
     "0xaaa", "0xbbb", "0xccc", "0xddd", "0xeee", "0xfff"}

RECURSIVE ToLowerCaseByChar(_)
ToLowerCaseByChar(a) ==
    IF Len(a) = 0 THEN a ELSE LowerChar(Head(a)) \o ToLowerCaseByChar(Tail(a))

\* String.prototype.toLowerCase: character by character, with the results
\* for the addresses of the scenarios written out.
ToLowerCase(a) ==
    CASE a \in InLowerCase -> a
      [] a = "0xAAA" -> "0xaaa"
      [] a = "0xBBB" -> "0xbbb"
      [] a = "0xCCC" -> "0xccc"
      [] a = "0xDDD" -> "0xddd"
      [] a = "0xEEE" -> "0xeee"
      [] a = "0xFFF" -> "0xfff"
      [] OTHER -> ToLowerCaseByChar(a)

\* One answer of the price feed to one lookup.
FeedError == [status |-> "error"]
FeedAbsent == [status |-> "absent"]
FeedPrice(p) == [status |-> "price", usd |-> p]

\* The feed's body has an entry for the address, and the entry has no usd.
FeedEntryWithoutUsd == FeedPrice(Undefined)

RECURSIVE getTokenPrices(_, _)
\* addresses: the addresses looked up, in order; answers[i] is the feed's
\* answer to the i-th lookup.
getTokenPrices(addresses, answers) ==
    IF Len(addresses) = 0 THEN <<>>
    ELSE LET n    == Len(addresses)
             init == getTokenPrices(SubSeq(addresses, 1, n - 1), SubSeq(answers, 1, n - 1))
         IN  IF answers[n].status = "price"
             THEN Append(init, [address |-> ToLowerCase(addresses[n]),
                                price   |-> answers[n].usd])
             ELSE init

extractTokenAddresses(message) ==
    [i \in 1..Len(message.from.tokens) |-> message.from.tokens[i].address]
    \o [i \in 1..Len(message.to.tokens) |-> message.to.tokens[i].address]

getPriceForAddress(prices, address) ==
    LET hits == {i \in 1..Len(prices) :
                    ToLowerCase(prices[i].address) = ToLowerCase(address)}
    IN  IF hits = {} THEN Undefined
        ELSE prices[CHOOSE i \in hits : \A j \in hits : i <= j].price

MinFee == Rat(1, 1000)
MaxFee == Rat(1, 100)

\* getRandomFeePercentage returning the fee in percent (0.1 to 1) instead
\* of as a fraction.
getRandomFeePercentageInPercent(draw) ==
    RAdd(RMul(draw, RSub(Num(1), Rat(1, 10))), Rat(1, 10))

\* Math.random() * (maxFee - minFee) + minFee, for Math.random() = draw,
\* a rational in [0, 1).
getRandomFeePercentage(draw) ==
    RAdd(RMul(draw, RSub(MaxFee, MinFee)), MinFee)

\* Draws Math.random() can return: k / steps for k < steps.
RandomDraws(steps) == {Rat(k, steps) : k \in 0..(steps - 1)}

\* The amount of one destination token whose price is known, for a fee.
ToTokenAmountAfterFee(toToken, fromTokenAmountInUSD, toTokenPrice, feePercentage) ==
    LET toTokenAmountInUSD == RDiv(RMul(fromTokenAmountInUSD, toToken.weight), Num(100))
        toTokenAmount      == RDiv(toTokenAmountInUSD, toTokenPrice)
    IN  RMul(toTokenAmount, RSub(Num(1), feePercentage))

RECURSIVE WeightSum(_)
WeightSum(tokens) ==
    IF Len(tokens) = 0 THEN Num(0)
    ELSE RAdd(tokens[1].weight, WeightSum(Tail(tokens)))

\* computeUpdatedToTokens taking each weight as a share of the sum of the
\* destination weights instead of a percentage.
computeUpdatedToTokensNormalized(toTokens, fromTokenAmountInUSD, prices, fees) ==
    [i \in 1..Len(toTokens) |->
        LET toToken      == toTokens[i]
            toTokenPrice == getPriceForAddress(prices, toToken.address)
            share        == RDiv(RMul(toToken.weight, Num(100)), WeightSum(toTokens))
        IN  IF Falsy(toTokenPrice)
            THEN [address |-> toToken.address, amount |-> Num(0)]
            ELSE [address |-> toToken.address,
                  amount  |-> ToTokenAmountAfterFee(
                                [address |-> toToken.address, weight |-> share],
                                fromTokenAmountInUSD, toTokenPrice, fees[i])]]

RECURSIVE computeUpdatedToTokensPricedOnly(_, _, _, _)
\* computeUpdatedToTokens leaving a destination token without a price out
\* of its result instead of giving it the amount 0.
computeUpdatedToTokensPricedOnly(toTokens, fromTokenAmountInUSD, prices, fees) ==
    IF Len(toTokens) = 0 THEN <<>>
    ELSE LET n            == Len(toTokens)
             toToken      == toTokens[n]
             toTokenPrice == getPriceForAddress(prices, toToken.address)
             init         == computeUpdatedToTokensPricedOnly(
                                SubSeq(toTokens, 1, n - 1), fromTokenAmountInUSD,
                                prices, fees)
         IN  IF Falsy(toTokenPrice) THEN init
             ELSE Append(init, [address |-> toToken.address,
                                amount  |-> ToTokenAmountAfterFee(toToken,
                                    fromTokenAmountInUSD, toTokenPrice, fees[n])])

\* fees[i] is the fee drawn for the i-th destination token (used only when
\* that token has a price).
computeUpdatedToTokens(toTokens, fromTokenAmountInUSD, prices, fees) ==
    [i \in 1..Len(toTokens) |->
        LET toToken      == toTokens[i]
            toTokenPrice == getPriceForAddress(prices, toToken.address)
        IN  IF Falsy(toTokenPrice)
            THEN [address |-> toToken.address, amount |-> Num(0)]
            ELSE [address |-> toToken.address,
                  amount  |-> ToTokenAmountAfterFee(toToken, fromTokenAmountInUSD,
                                                    toTokenPrice, fees[i])]]

\* A JavaScript TypeError thrown by an operation.
Threw == [threw |-> TRUE]

\* processMessage answering a missing source price with a quote of zero
\* amounts instead of returning nothing.
processMessageZeroQuote(request, answers, fees, publicKey) ==
    IF ~HasTokens(request.from) \/ ~HasTokens(request.to)
    THEN Threw
    ELSE
    LET tokenAddresses == extractTokenAddresses(request)
        prices         == getTokenPrices(tokenAddresses, answers)
        fromToken      == request.from.tokens[1]
        fromTokenPrice == getPriceForAddress(prices, fromToken.address)
    IN  IF Len(request.from.tokens) = 0 THEN Threw
        ELSE LET fromTokenAmountInUSD ==
                    IF Falsy(fromTokenPrice) THEN Num(0)
                    ELSE RMul(fromToken.weight, fromTokenPrice)
                 updatedToTokens == computeUpdatedToTokens(request.to.tokens,
                                        fromTokenAmountInUSD, prices, fees)
             IN  [solver |-> publicKey,
                  from   |-> [network |-> request.from.network,
                              tokens  |-> [i \in 1..Len(request.from.tokens) |->
                                  [address |-> request.from.tokens[i].address,
                                   amount  |-> request.from.tokens[i].weight]]],
                  to     |-> [network |-> request.to.network,
                              tokens  |-> updatedToTokens]]

\* processMessage echoing each source token with its value in USD at the
\* first source token's price instead of its weight.
processMessageEchoValue(request, answers, fees, publicKey) ==
    IF ~HasTokens(request.from) \/ ~HasTokens(request.to)
    THEN Threw
    ELSE
    LET tokenAddresses == extractTokenAddresses(request)
        prices         == getTokenPrices(tokenAddresses, answers)
        fromToken      == request.from.tokens[1]
        fromTokenPrice == getPriceForAddress(prices, fromToken.address)
    IN  IF Len(request.from.tokens) = 0 THEN Threw
        ELSE IF Falsy(fromTokenPrice) THEN Undefined
        ELSE LET fromTokenAmountInUSD == RMul(fromToken.weight, fromTokenPrice)
                 updatedToTokens == computeUpdatedToTokens(request.to.tokens,
                                        fromTokenAmountInUSD, prices, fees)
             IN  [solver |-> publicKey,
                  from   |-> [network |-> request.from.network,
                              tokens  |-> [i \in 1..Len(request.from.tokens) |->
                                  [address |-> request.from.tokens[i].address,
                                   amount  |-> RMul(request.from.tokens[i].weight,
                                                    fromTokenPrice)]]],
                  to     |-> [network |-> request.to.network,
                              tokens  |-> updatedToTokens]]

RECURSIVE SourceValue(_, _)
\* The value in USD of all the source tokens that have a price.
SourceValue(tokens, prices) ==
    IF Len(tokens) = 0 THEN Num(0)
    ELSE LET price == getPriceForAddress(prices, tokens[1].address)
             rest  == SourceValue(Tail(tokens), prices)
         IN  IF Falsy(price) THEN rest ELSE RAdd(RMul(tokens[1].weight, price), rest)

\* processMessage quoting the value of all the source tokens instead of
\* the first one's.
processMessageAllSources(request, answers, fees, publicKey) ==
    IF ~HasTokens(request.from) \/ ~HasTokens(request.to)
    THEN Threw
    ELSE
    LET tokenAddresses == extractTokenAddresses(request)
        prices         == getTokenPrices(tokenAddresses, answers)
        fromToken      == request.from.tokens[1]
        fromTokenPrice == getPriceForAddress(prices, fromToken.address)
    IN  IF Len(request.from.tokens) = 0 THEN Threw
        ELSE IF Falsy(fromTokenPrice) THEN Undefined
        ELSE LET fromTokenAmountInUSD == SourceValue(request.from.tokens, prices)
                 updatedToTokens == computeUpdatedToTokens(request.to.tokens,
                                        fromTokenAmountInUSD, prices, fees)
             IN  [solver |-> publicKey,
                  from   |-> [network |-> request.from.network,
                              tokens  |-> [i \in 1..Len(request.from.tokens) |->
                                  [address |-> request.from.tokens[i].address,
                                   amount  |-> request.from.tokens[i].weight]]],
                  to     |-> [network |-> request.to.network,
                              tokens  |-> updatedToTokens]]

\* SolverService.processMessage: the response, Undefined when the source
\* price is missing, Threw when a token list is missing or empty.
processMessage(request, answers, fees, publicKey) ==
    IF ~HasTokens(request.from) \/ ~HasTokens(request.to)
    THEN Threw
    ELSE
    LET tokenAddresses == extractTokenAddresses(request)
        prices         == getTokenPrices(tokenAddresses, answers)
        fromToken      == request.from.tokens[1]
        fromTokenPrice == getPriceForAddress(prices, fromToken.address)
    IN  IF Len(request.from.tokens) = 0 THEN Threw
        ELSE IF Falsy(fromTokenPrice) THEN Undefined
        ELSE LET fromTokenAmountInUSD == RMul(fromToken.weight, fromTokenPrice)
                 updatedToTokens == computeUpdatedToTokens(request.to.tokens,
                                        fromTokenAmountInUSD, prices, fees)
             IN  [solver |-> publicKey,
                  from   |-> [network |-> request.from.network,
                              tokens  |-> [i \in 1..Len(request.from.tokens) |->
                                  [address |-> request.from.tokens[i].address,
                                   amount  |-> request.from.tokens[i].weight]]],
                  to     |-> [network |-> request.to.network,
                              tokens  |-> updatedToTokens]]


(***************************************************************************)
(* State of the protocol.                                                  *)
(***************************************************************************)
VARIABLES
    wallet,         \* service -> public key of its wallet
    bucket,         \* requester -> this.bucket
    contentTopics,  \* service -> this.contentTopics[0], the topic it listens on
    initPc,         \* service -> position of onModuleInit
    node,           \* service -> state of this.node, the relay node
    subs,           \* service -> number of observers its subscribe calls registered
    inflight,       \* service -> number of subscribe calls awaiting their result
    timers,         \* service -> remaining delays (ms) of its pending retry timers
    okCount,        \* service -> number of subscribe calls that succeeded
    waited,         \* service -> ms since its last retry timer was set (up to RetryDelayMs)
    sends,          \* requester -> its invocations of sendRequest, in order
    inbox,          \* service -> messages its node received, callback not yet invoked
    solverCalls,    \* the invocations of SolverService.callback
    userCalls,      \* the invocations of UserService.callback
    pubLog,         \* every message the services published so far
    foreign,        \* number of messages published by parties outside the model
    quote,          \* one call of processMessage: its inputs and its result
    fails,          \* service -> number of its subscribe calls that failed (counted up to MaxFails)
    rejections,     \* number of calls of sendRequest and sendResponse ended by a rejection
                    \* of their light node (create, start, waitForPeers, send, stop)
    stops,          \* number of services shut down so far
    early           \* number of calls of sendRequest entered before onModuleInit had ended

vars == <<wallet, bucket, contentTopics, initPc, node, subs, inflight, timers,
          okCount, waited, sends, inbox, solverCalls, userCalls, pubLog, foreign, quote,
          fails, rejections, stops, early>>

identityVars == <<wallet, bucket, contentTopics>>
subscriptionVars == <<initPc, node, subs, inflight, timers, okCount, waited, fails,
                      stops>>

\* The answers the price feed gives to the three lookups of one request
\* of sendRequest (source token, then the two destination tokens).
ProtocolFeeds ==
    { <<FeedPrice(Num(2000)), FeedPrice(Num(1)), FeedError>>,
      <<FeedAbsent, FeedPrice(Num(1)), FeedPrice(Num(1))>> }

\* A sendRequest that takes the bucket of a wallet it creates for the call.
SampleRequestOfNewWallet(b) ==
    [bucket |-> getBucketFromPublicKey("k4"),
     from   |-> [network |-> "mainnet",
                 tokens  |-> << [address |-> "0xc02aaa39b223fe8d0a0e5c4f27ead9083c756cc2",
                                 weight  |-> Num(1)] >>],
     to     |-> [network |-> "base",
                 tokens  |-> << [address |-> "0xa0b86991c6218b36c1d19d4a2e9eb0ce3606eb48",
                                 weight  |-> Num(30)],
                                [address |-> "0xdac17f958d2ee523a2206206994597c13d831ec7",
                                 weight  |-> Num(70)] >>]]

\* The message sendRequest builds.
SampleRequest(b) ==
    [bucket |-> b,
     from   |-> [network |-> "mainnet",
                 tokens  |-> << [address |-> "0xc02aaa39b223fe8d0a0e5c4f27ead9083c756cc2",
                                 weight  |-> Num(1)] >>],
     to     |-> [network |-> "base",
                 tokens  |-> << [address |-> "0xa0b86991c6218b36c1d19d4a2e9eb0ce3606eb48",
                                 weight  |-> Num(30)],
                                [address |-> "0xdac17f958d2ee523a2206206994597c13d831ec7",
                                 weight  |-> Num(70)] >>]]

Subscribed(s) == subs[s] > 0

\* The substrate hands a message published on topic to every node that has
\* an observer on that topic, once per observer.
Delivered(topic, mid, payload) ==
    [s \in Services |->
        IF node[s] = "started" /\ contentTopics[s] = topic
        THEN inbox[s] \cup {[mid |-> mid, payload |-> payload, copy |-> c] : c \in 1..subs[s]}
        ELSE inbox[s]]

(***************************************************************************)
(* Construction.                                                           *)
(***************************************************************************)
\* UserService.constructor and SolverService.constructor
Constructed ==
    /\ wallet \in {w \in [Services -> Keys] : \A s \in Services : w[s] \in KeysOf(s)}
    /\ bucket = [u \in Users |-> getBucketFromPublicKey(wallet[u])]
    /\ contentTopics = [s \in Services |->
            IF s = Solver THEN RequestTopic ELSE ResponseTopic(bucket[s])]
    /\ initPc = [s \in Services |-> "boot"]
    /\ node = [s \in Services |-> "none"]
    /\ subs = [s \in Services |-> 0]
    /\ inflight = [s \in Services |-> 0]
    /\ timers = [s \in Services |-> <<>>]
    /\ okCount = [s \in Services |-> 0]
    /\ waited = [s \in Services |-> RetryDelayMs]
    /\ sends = [u \in Users |-> <<>>]
    /\ inbox = [s \in Services |-> {}]
    /\ solverCalls = {}
    /\ userCalls = {}
    /\ pubLog = {}
    /\ foreign = 0
    /\ fails = [s \in Services |-> 0]
    /\ rejections = 0
    /\ stops = 0
    /\ early = 0

Init ==
    /\ Constructed
    /\ quote = [pc |-> "none"]

(***************************************************************************)
(* Failures of the substrate's calls.                                      *)
(***************************************************************************)
RECURSIVE Total(_, _)
Total(f, S) ==
    IF S = {} THEN 0
    ELSE LET x == CHOOSE y \in S : TRUE IN f[x] + Total(f, S \ {x})

\* The invocations of onModuleInit that ended with an error.
InitFaults == Cardinality({s \in Services : initPc[s] = "threw"})

\* The invocations of sendRequest and sendResponse that ended with an error
\* of their light node (creating, starting, connecting, pushing, stopping).
LightFaults == rejections

\* The failed calls of the substrate, the shutdowns, the messages of
\* parties outside the model and the calls of sendRequest entered before
\* onModuleInit of their service had ended, so far.
Faults == Total(fails, Services) + InitFaults + LightFaults
Disturbances == Faults + stops + foreign + early

\* At most MaxFails calls of the substrate fail in all, and at most
\* MaxDisturbances things of any of these kinds happen in all.
FaultAllowed == Faults < MaxFails /\ Disturbances < MaxDisturbances

(***************************************************************************)
(* Subscription (onModuleInit, listenToQuoteResponses/Requests,            *)
(* onModuleDestroy).                                                       *)
(***************************************************************************)
\* onModuleInit is called and createRelayNode resolves: this.node is the
\* relay node, not started yet.
OnModuleInit(s) ==
    /\ initPc[s] = "boot"
    /\ node[s] = "none"
    /\ node' = [node EXCEPT ![s] = "created"]
    /\ UNCHANGED <<quote, identityVars, initPc, subs, inflight, timers, okCount, waited,
                   fails, stops, sends, inbox, solverCalls, userCalls, pubLog, foreign, rejections,
                   early>>

\* await this.node.start() resolves.
RelayStarted(s) ==
    /\ initPc[s] = "boot"
    /\ node[s] = "created"
    /\ node' = [node EXCEPT ![s] = "started"]
    /\ UNCHANGED <<quote, identityVars, initPc, subs, inflight, timers, okCount, waited,
                   fails, stops, sends, inbox, solverCalls, userCalls, pubLog, foreign, rejections,
                   early>>

\* await this.node.waitForPeers(...) resolves: 'Connected to TCP relay
\* Node.', listenTo... is entered and calls subscribeWithUnsubscribe.
PeersFound(s) ==
    /\ initPc[s] = "boot"
    /\ node[s] = "started"
    /\ initPc' = [initPc EXCEPT ![s] = "listening"]
    /\ inflight' = [inflight EXCEPT ![s] = @ + 1]
    /\ UNCHANGED <<quote, identityVars, node, subs, timers, okCount, waited, fails, stops,
                   sends, inbox, solverCalls, userCalls, pubLog, foreign, rejections,
                   early>>

\* createRelayNode, start or waitForPeers rejects: the error leaves
\* onModuleInit, the node stays as it is and listenTo... is never entered.
OnModuleInitRejected(s) ==
    /\ initPc[s] = "boot"
    /\ initPc' = [initPc EXCEPT ![s] = "threw"]
    /\ UNCHANGED <<quote, identityVars, node, subs, inflight, timers, okCount, waited,
                   fails, stops, sends, inbox, solverCalls, userCalls, pubLog, foreign, rejections,
                   early>>

\* onModuleInit fails, within the bound on failures.
OnModuleInitFail(s) ==
    /\ FaultAllowed
    /\ OnModuleInitRejected(s)

\* What onModuleInit does when the listenTo... call it awaits returns.
InitAfterListen(pc) == IF pc = "listening" THEN "returned" ELSE pc

\* A success that schedules a retry all the same.
TimersAfterSuccessRetry(ts) == Append(ts, RetryDelayMs)

\* The timers left after a subscribe call succeeded.
TimersAfterSuccess(ts) == ts

\* subscribeWithUnsubscribe resolves: 'Subscribed to quotes ... topic.'
SubscribeOk(s) ==
    /\ inflight[s] > 0
    /\ node[s] = "started"
    /\ inflight' = [inflight EXCEPT ![s] = @ - 1]
    /\ subs' = [subs EXCEPT ![s] = @ + 1]
    /\ okCount' = [okCount EXCEPT ![s] = @ + 1]
    /\ timers' = [timers EXCEPT ![s] = TimersAfterSuccess(@)]
    /\ initPc' = [initPc EXCEPT ![s] = InitAfterListen(@)]
    /\ UNCHANGED <<quote, identityVars, node, waited, fails, stops, sends, inbox,
                   solverCalls, userCalls, pubLog, foreign, rejections, early>>

\* A catch block that schedules nothing.
TimersAfterFailureNone(ts) == ts

\* A catch block that schedules the retry twice.
TimersAfterFailureTwice(ts) == Append(Append(ts, RetryDelayMs), RetryDelayMs)

\* The timers after the catch block ran: setTimeout(..., 3000).
TimersAfterFailure(ts) == Append(ts, RetryDelayMs)

\* subscribeWithUnsubscribe rejects: 'Subscription retry...' and a timer.
SubscribeRejected(s) ==
    /\ inflight[s] > 0
    /\ inflight' = [inflight EXCEPT ![s] = @ - 1]
    /\ timers' = [timers EXCEPT ![s] = TimersAfterFailure(@)]
    /\ waited' = [waited EXCEPT ![s] = 0]
    /\ initPc' = [initPc EXCEPT ![s] = InitAfterListen(@)]
    /\ UNCHANGED <<quote, identityVars, node, subs, okCount, stops, sends, inbox,
                   solverCalls, userCalls, pubLog, foreign, rejections, early>>

\* A subscribe call fails, within the bound on failures.
SubscribeFail(s) ==
    /\ FaultAllowed
    /\ fails' = [fails EXCEPT ![s] = @ + 1]
    /\ SubscribeRejected(s)

\* A subscribe call fails, any number of times.
SubscribeFailAgain(s) ==
    /\ fails' = [fails EXCEPT ![s] = IF @ < MaxFails THEN @ + 1 ELSE @]
    /\ SubscribeRejected(s)

\* A timer that runs at once, whatever its delay.
TimerDueAtOnce(remaining) == TRUE

\* Whether a timer with this remaining delay may run its callback.
TimerDue(remaining) == remaining = 0

\* A retry timer runs: listenTo... is entered again.
TimerFire(s) ==
    /\ \E i \in 1..Len(timers[s]) :
        /\ TimerDue(timers[s][i])
        /\ timers' = [timers EXCEPT ![s] =
                SubSeq(@, 1, i - 1) \o SubSeq(@, i + 1, Len(@))]
    /\ inflight' = [inflight EXCEPT ![s] = @ + 1]
    /\ UNCHANGED <<quote, identityVars, initPc, node, subs, okCount, waited, fails, stops,
                   sends, inbox, solverCalls, userCalls, pubLog, foreign, rejections,
                   early>>

\* TickMs of time pass.
Tick ==
    /\ \E s \in Services : \E i \in 1..Len(timers[s]) : timers[s][i] > 0
    /\ timers' = [s \in Services |->
            [i \in 1..Len(timers[s]) |->
                IF timers[s][i] > TickMs THEN timers[s][i] - TickMs ELSE 0]]
    /\ waited' = [s \in Services |->
            IF waited[s] + TickMs < RetryDelayMs THEN waited[s] + TickMs
            ELSE RetryDelayMs]
    /\ UNCHANGED <<quote, identityVars, initPc, node, subs, inflight, okCount, fails, stops,
                   sends, inbox, solverCalls, userCalls, pubLog, foreign, rejections,
                   early>>

\* onModuleDestroy: this.node.stop(), whatever onModuleInit and
\* listenTo... are doing.  The observers go with the node.
NodeStopped(s) ==
    /\ node[s] = "started"
    /\ node' = [node EXCEPT ![s] = "stopped"]
    /\ subs' = [subs EXCEPT ![s] = 0]
    /\ inbox' = [inbox EXCEPT ![s] = {}]
    /\ UNCHANGED <<quote, identityVars, initPc, inflight, timers, okCount, waited, fails,
                   sends, solverCalls, userCalls, pubLog, foreign, rejections, early>>

\* A service is shut down, at most MaxStops services in all.
OnModuleDestroy(s) ==
    /\ stops < MaxStops
    /\ Disturbances < MaxDisturbances
    /\ stops' = stops + 1
    /\ NodeStopped(s)

\* A service is shut down, whatever happened to the others.
OnModuleDestroyAny(s) ==
    /\ stops' = stops
    /\ NodeStopped(s)

(***************************************************************************)
(* The substrate.                                                          *)
(***************************************************************************)
\* Identifiers of the published messages (not on the wire).
RequestMid(u, i) == <<"request", u, i>>
ResponseMid(c) == <<"response", c.mid, c.copy>>
ForeignMid(k) == <<"foreign", k>>

Published(mid, topic, payload, re, by, listening) ==
    [mid |-> mid, topic |-> topic, payload |-> payload, re |-> re, by |-> by,
     listening |-> listening]

\* A party outside the model publishes, on a topic a service listens on,
\* bytes that are no encoded message, or a message without payload.
PublishForeign(s, payload) ==
    /\ foreign < MaxForeign
    /\ Disturbances < MaxDisturbances
    /\ Subscribed(s)
    /\ foreign' = foreign + 1
    /\ inbox' = Delivered(contentTopics[s], ForeignMid(foreign + 1), payload)
    /\ UNCHANGED <<quote, identityVars, subscriptionVars, sends, solverCalls, userCalls,
                   pubLog, rejections, early>>

(***************************************************************************)
(* Requester: sendRequest and callback.                                    *)
(***************************************************************************)
\* onModuleInit of s has neither returned nor rejected: it was not called
\* yet, or it was called and awaits one of its calls.
InitNotEnded(s) == initPc[s] \in {"boot", "listening"}

\* sendRequest is entered and creates its light node.  It reads neither
\* this.node nor the state of the subscription: it runs before onModuleInit
\* has returned and after onModuleDestroy as well.  At most MaxEarly calls
\* are entered before onModuleInit of the service has ended.
SendRequestStart(u) ==
    /\ Len(sends[u]) < MaxSends
    /\ InitNotEnded(u) => (early < MaxEarly /\ Disturbances < MaxDisturbances)
    /\ early' = IF InitNotEnded(u) THEN early + 1 ELSE early
    /\ sends' = [sends EXCEPT ![u] =
            Append(@, [pc |-> "connecting", light |-> "open", attempts |-> 0])]
    /\ UNCHANGED <<quote, identityVars, subscriptionVars, inbox, solverCalls, userCalls,
                   pubLog, foreign, rejections>>

\* The topic sendRequest publishes on.
SendRequestTopic == RequestTopic

\* createLightNode rejects (there is no light node), or node.start() or
\* waitForPeers rejects (the light node stays open): the error leaves
\* sendRequest before anything is pushed.
SendRequestConnectFail(u, i, light) ==
    /\ sends[u][i].pc = "connecting"
    /\ sends' = [sends EXCEPT ![u][i] = [@ EXCEPT !.pc = "threw", !.light = light]]
    /\ rejections' = rejections + 1
    /\ UNCHANGED <<quote, identityVars, subscriptionVars, inbox, solverCalls, userCalls,
                   pubLog, foreign, early>>

\* The invocation of sendRequest after lightPush.send resolved:
\* 'Request for quotes sent.', up to the await of node.stop().
SendRequestAfterSuccess(call) ==
    [call EXCEPT !.pc = "stopping", !.attempts = @ + 1]

\* The light node found a peer; the message is built, encoded and pushed,
\* and lightPush.send resolves: the request is out.
SendRequestPushed(u, i) ==
    /\ sends[u][i].pc = "connecting"
    /\ LET payload == EncodeRequest(SampleRequest(bucket[u]))
       IN  /\ pubLog' = pubLog \cup
                {Published(RequestMid(u, i), SendRequestTopic, payload, <<>>, u,
                           Subscribed(u))}
           /\ inbox' = Delivered(SendRequestTopic, RequestMid(u, i), payload)
    /\ sends' = [sends EXCEPT ![u][i] = SendRequestAfterSuccess(@)]
    /\ UNCHANGED <<quote, identityVars, subscriptionVars, solverCalls, userCalls, foreign,
                   rejections, early>>

\* await node.stop() resolves: the light node is stopped and sendRequest
\* returns.
SendRequestOk(u, i) ==
    /\ sends[u][i].pc = "stopping"
    /\ sends' = [sends EXCEPT ![u][i] = [@ EXCEPT !.pc = "returned", !.light = "stopped"]]
    /\ UNCHANGED <<quote, identityVars, subscriptionVars, inbox, solverCalls, userCalls,
                   pubLog, foreign, rejections, early>>

\* await node.stop() rejects: the error leaves sendRequest, the request
\* is out.
SendRequestStopFail(u, i) ==
    /\ sends[u][i].pc = "stopping"
    /\ sends' = [sends EXCEPT ![u][i] = [@ EXCEPT !.pc = "threw"]]
    /\ rejections' = rejections + 1
    /\ UNCHANGED <<quote, identityVars, subscriptionVars, inbox, solverCalls, userCalls,
                   pubLog, foreign, early>>

\* A sendRequest that pushes again after a rejected push.
SendRequestAfterFailureRetry(call) ==
    [call EXCEPT !.attempts = @ + 1]

\* The invocation of sendRequest after lightPush.send rejected.
SendRequestAfterFailure(call) ==
    [call EXCEPT !.pc = "threw", !.attempts = @ + 1]

\* lightPush.send rejects: the error leaves sendRequest.
SendRequestFail(u, i) ==
    /\ sends[u][i].pc = "connecting"
    /\ sends' = [sends EXCEPT ![u][i] = SendRequestAfterFailure(@)]
    /\ rejections' = rejections + 1
    /\ UNCHANGED <<quote, identityVars, subscriptionVars, inbox, solverCalls, userCalls,
                   pubLog, foreign, early>>

\* What one invocation of UserService.callback does with a payload.
UserCallbackResult(payload) ==
    CASE payload.kind = "empty" ->
            [outcome |-> "returned", surfaced |-> Undefined]
      [] payload.kind \in {"response", "request"} ->
            [outcome |-> "returned", surfaced |-> DecodeResponse(payload)]
      [] OTHER ->
            [outcome |-> "threw", surfaced |-> Undefined]

\* A callback that surfaces the first response only and discards the
\* later ones.
UserCallbackFirstOnly(u, m) ==
    /\ m \in inbox[u]
    /\ node[u] = "started"
    /\ inbox' = [inbox EXCEPT ![u] = @ \ {m}]
    /\ userCalls' =
            IF \E uc \in userCalls : uc.user = u
            THEN userCalls
            ELSE userCalls \cup
                    {[user |-> u, mid |-> m.mid, copy |-> m.copy,
                      outcome |-> UserCallbackResult(m.payload).outcome,
                      surfaced |-> UserCallbackResult(m.payload).surfaced]}
    /\ UNCHANGED <<quote, identityVars, subscriptionVars, sends, solverCalls, pubLog,
                   foreign, rejections, early>>

\* The relay node invokes UserService.callback with a received message.
UserCallback(u, m) ==
    /\ m \in inbox[u]
    /\ node[u] = "started"
    /\ inbox' = [inbox EXCEPT ![u] = @ \ {m}]
    /\ userCalls' = userCalls \cup
            {[user |-> u, mid |-> m.mid, copy |-> m.copy,
              outcome |-> UserCallbackResult(m.payload).outcome,
              surfaced |-> UserCallbackResult(m.payload).surfaced]}
    /\ UNCHANGED <<quote, identityVars, subscriptionVars, sends, solverCalls, pubLog,
                   foreign, rejections, early>>

(***************************************************************************)
(* Solver: callback, processMessage, sendResponse.                         *)
(***************************************************************************)
\* The invocation of SolverService.callback for message m, up to its first
\* await (getTokenPrices inside processMessage).
SolverCallStarted(m) ==
    CASE m.payload.kind = "empty" ->
            [mid |-> m.mid, copy |-> m.copy, pc |-> "returned", light |-> "none",
             attempts |-> 0]
      [] m.payload.kind \in {"request", "response"} ->
            [mid |-> m.mid, copy |-> m.copy, pc |-> "pricing", light |-> "none",
             attempts |-> 0, request |-> DecodeRequest(m.payload)]
      [] OTHER ->
            [mid |-> m.mid, copy |-> m.copy, pc |-> "threw", light |-> "none",
             attempts |-> 0]

\* The relay node invokes SolverService.callback with a received message.
SolverCallback(m) ==
    /\ m \in inbox[Solver]
    /\ node[Solver] = "started"
    /\ inbox' = [inbox EXCEPT ![Solver] = @ \ {m}]
    /\ solverCalls' = solverCalls \cup {SolverCallStarted(m)}
    /\ UNCHANGED <<quote, identityVars, subscriptionVars, sends, userCalls, pubLog, foreign,
                   rejections, early>>

Replace(calls, c, d) == (calls \ {c}) \cup {d}

\* A callback that keeps the decoded request in a field of the service:
\* after the await it goes on with the request of whichever invocation
\* wrote the field last.
SolverPricedFromSharedField(c, answers, draws) ==
    /\ c \in solverCalls
    /\ c.pc = "pricing"
    /\ LET others   == {d \in solverCalls : d.pc = "pricing" /\ d # c}
           request  == IF others = {} THEN c.request
                       ELSE (CHOOSE d \in others : TRUE).request
           fees     == [i \in DOMAIN draws |-> getRandomFeePercentage(draws[i])]
           response == processMessage(request, answers, fees, wallet[Solver])
       IN  solverCalls' = Replace(solverCalls, c,
                IF response = Threw
                THEN [c EXCEPT !.pc = "threw"]
                ELSE [mid |-> c.mid, copy |-> c.copy, pc |-> "connecting",
                      light |-> "open", attempts |-> 0, request |-> request,
                      answers |-> answers, response |-> response])
    /\ UNCHANGED <<quote, identityVars, subscriptionVars, sends, inbox, userCalls, pubLog,
                   foreign, rejections, early>>

\* getTokenPrices has answered: processMessage finishes, and the callback
\* goes on into sendResponse with whatever it returned, up to the await of
\* the light node (createLightNode, start, waitForPeers).
SolverPriced(c, answers, draws) ==
    /\ c \in solverCalls
    /\ c.pc = "pricing"
    /\ LET fees     == [i \in DOMAIN draws |-> getRandomFeePercentage(draws[i])]
           response == processMessage(c.request, answers, fees, wallet[Solver])
       IN  solverCalls' = Replace(solverCalls, c,
                IF response = Threw
                THEN [c EXCEPT !.pc = "threw"]
                ELSE [mid |-> c.mid, copy |-> c.copy, pc |-> "connecting",
                      light |-> "open", attempts |-> 0, request |-> c.request,
                      answers |-> answers, response |-> response])
    /\ UNCHANGED <<quote, identityVars, subscriptionVars, sends, inbox, userCalls, pubLog,
                   foreign, rejections, early>>

\* A sendResponse that derives the topic from the solver's own wallet.
SendResponseTopicOwn(b) == ResponseTopic(getBucketFromPublicKey(wallet[Solver]))

\* A sendResponse that answers on the topic of the first bucket it knows.
SendResponseTopicFixed(b) == ResponseTopic("aaaaaaaa")

\* The topic sendResponse(bucket, response) publishes on.
SendResponseTopic(b) == ResponseTopic(b)

\* responseType.encode(response) reads the fields of response: a TypeError
\* when response is undefined.
EncodeThrows(response) == response = Undefined

\* sendResponse: createLightNode rejects (there is no light node), or
\* node.start() or waitForPeers rejects (the light node stays open); the
\* error leaves the callback before anything is encoded or pushed.
SolverConnectFail(c, light) ==
    /\ c \in solverCalls
    /\ c.pc = "connecting"
    /\ solverCalls' = Replace(solverCalls, c, [c EXCEPT !.pc = "threw", !.light = light])
    /\ rejections' = rejections + 1
    /\ UNCHANGED <<quote, identityVars, subscriptionVars, sends, inbox, userCalls, pubLog,
                   foreign, early>>

\* sendResponse: encode throws, before anything is pushed.
SolverEncodeFail(c) ==
    /\ c \in solverCalls
    /\ c.pc = "connecting"
    /\ EncodeThrows(c.response)
    /\ solverCalls' = Replace(solverCalls, c, [c EXCEPT !.pc = "threw"])
    /\ UNCHANGED <<quote, identityVars, subscriptionVars, sends, inbox, userCalls, pubLog,
                   foreign, rejections, early>>

\* sendResponse: the response is encoded and pushed, and lightPush.send
\* resolves: the response is out ('Response for quotes sent.', up to the
\* await of node.stop()).
SolverPushed(c) ==
    /\ c \in solverCalls
    /\ c.pc = "connecting"
    /\ ~EncodeThrows(c.response)
    /\ LET topic   == SendResponseTopic(c.request.bucket)
           payload == EncodeResponse(c.response)
       IN  /\ pubLog' = pubLog \cup
                {Published(ResponseMid(c), topic, payload, c.mid, Solver, TRUE)}
           /\ inbox' = Delivered(topic, ResponseMid(c), payload)
    /\ solverCalls' = Replace(solverCalls, c,
            [c EXCEPT !.pc = "stopping", !.attempts = @ + 1])
    /\ UNCHANGED <<quote, identityVars, subscriptionVars, sends, userCalls, foreign, rejections,
                   early>>

\* sendResponse: await node.stop() resolves, the light node is stopped and
\* the callback returns.
SolverSendOk(c) ==
    /\ c \in solverCalls
    /\ c.pc = "stopping"
    /\ solverCalls' = Replace(solverCalls, c,
            [c EXCEPT !.pc = "returned", !.light = "stopped"])
    /\ UNCHANGED <<quote, identityVars, subscriptionVars, sends, inbox, userCalls, pubLog,
                   foreign, rejections, early>>

\* sendResponse: await node.stop() rejects; the error leaves the callback,
\* the response is out.
SolverStopFail(c) ==
    /\ c \in solverCalls
    /\ c.pc = "stopping"
    /\ solverCalls' = Replace(solverCalls, c, [c EXCEPT !.pc = "threw"])
    /\ rejections' = rejections + 1
    /\ UNCHANGED <<quote, identityVars, subscriptionVars, sends, inbox, userCalls, pubLog,
                   foreign, early>>

\* A rejected push that ends the solver's subscription with the callback.
SolverSendFailUnsubscribes(c) ==
    /\ c \in solverCalls
    /\ c.pc = "connecting"
    /\ ~EncodeThrows(c.response)
    /\ solverCalls' = Replace(solverCalls, c,
            [c EXCEPT !.pc = "threw", !.attempts = @ + 1])
    /\ subs' = [subs EXCEPT ![Solver] = 0]
    /\ rejections' = rejections + 1
    /\ UNCHANGED <<quote, identityVars, initPc, node, inflight, timers, okCount, waited,
                   fails, stops, sends, inbox, userCalls, pubLog, foreign, early>>

\* sendResponse: lightPush.send rejects; the error leaves the callback.
SolverSendFail(c) ==
    /\ c \in solverCalls
    /\ c.pc = "connecting"
    /\ ~EncodeThrows(c.response)
    /\ solverCalls' = Replace(solverCalls, c,
            [c EXCEPT !.pc = "threw", !.attempts = @ + 1])
    /\ rejections' = rejections + 1
    /\ UNCHANGED <<quote, identityVars, subscriptionVars, sends, inbox, userCalls, pubLog,
                   foreign, early>>

(***************************************************************************)
(* The protocol.                                                           *)
(***************************************************************************)
\* The draws of Math.random() for the two destination tokens of a request.
ProtocolDraws == [1..2 -> RandomDraws(RandomSteps)]

Next ==
    \/ \E s \in Services : OnModuleInit(s)
    \/ \E s \in Services : RelayStarted(s)
    \/ \E s \in Services : PeersFound(s)
    \/ \E s \in Services : OnModuleInitFail(s)
    \/ \E s \in Services : SubscribeOk(s)
    \/ \E s \in Services : SubscribeFail(s)
    \/ \E s \in Services : TimerFire(s)
    \/ Tick
    \/ \E s \in Services : OnModuleDestroy(s)
    \/ \E s \in Services : \E p \in {EmptyPayload, MalformedPayload} : PublishForeign(s, p)
    \/ \E u \in Users : SendRequestStart(u)
    \/ \E u \in Users : \E i \in 1..Len(sends[u]) :
            \E light \in {"none", "open"} : FaultAllowed /\ SendRequestConnectFail(u, i, light)
    \/ \E u \in Users : \E i \in 1..Len(sends[u]) : SendRequestPushed(u, i)
    \/ \E u \in Users : \E i \in 1..Len(sends[u]) : FaultAllowed /\ SendRequestFail(u, i)
    \/ \E u \in Users : \E i \in 1..Len(sends[u]) : SendRequestOk(u, i)
    \/ \E u \in Users : \E i \in 1..Len(sends[u]) : FaultAllowed /\ SendRequestStopFail(u, i)
    \/ \E u \in Users : \E m \in inbox[u] : UserCallback(u, m)
    \/ \E m \in inbox[Solver] : SolverCallback(m)
    \/ \E c \in solverCalls : \E answers \in ProtocolFeeds :
            \E draws \in ProtocolDraws : SolverPriced(c, answers, draws)
    \/ \E c \in solverCalls : \E light \in {"none", "open"} :
            FaultAllowed /\ SolverConnectFail(c, light)
    \/ \E c \in solverCalls : SolverEncodeFail(c)
    \/ \E c \in solverCalls : SolverPushed(c)
    \/ \E c \in solverCalls : FaultAllowed /\ SolverSendFail(c)
    \/ \E c \in solverCalls : SolverSendOk(c)
    \/ \E c \in solverCalls : FaultAllowed /\ SolverStopFail(c)

Spec == Init /\ [][Next]_vars

(***************************************************************************)
(* The subscription life cycle alone, with any number of failed subscribe  *)
(* calls and of shutdowns.                                                 *)
(***************************************************************************)
LifecycleNext ==
    \/ \E s \in Services : OnModuleInit(s)
    \/ \E s \in Services : RelayStarted(s)
    \/ \E s \in Services : PeersFound(s)
    \/ \E s \in Services : OnModuleInitRejected(s)
    \/ \E s \in Services : SubscribeOk(s)
    \/ \E s \in Services : SubscribeFailAgain(s)
    \/ \E s \in Services : TimerFire(s)
    \/ Tick
    \/ \E s \in Services : OnModuleDestroyAny(s)

LifecycleSpec == Init /\ [][LifecycleNext]_vars

\* The framework calls onModuleInit, timers run when due, time passes, and
\* the substrate's subscribe succeeds in the end when it keeps being called.
LifecycleFairness ==
    /\ \A s \in Services : WF_vars(OnModuleInit(s))
    /\ \A s \in Services : WF_vars(RelayStarted(s))
    /\ \A s \in Services : WF_vars(PeersFound(s))
    /\ \A s \in Services : WF_vars(TimerFire(s))
    /\ WF_vars(Tick)
    /\ \A s \in Services : SF_vars(SubscribeOk(s))

LifecycleLiveSpec == LifecycleSpec /\ LifecycleFairness

\* The callbacks run when a message is there, the price feed answers, and
\* the light node of sendResponse finds a peer, pushes and is stopped.
ProtocolFairness ==
    /\ WF_vars(\E m \in inbox[Solver] : SolverCallback(m))
    /\ WF_vars(\E c \in solverCalls : \E answers \in ProtocolFeeds :
                    \E draws \in ProtocolDraws : SolverPriced(c, answers, draws))
    /\ WF_vars(\E c \in solverCalls : SolverPushed(c))
    /\ WF_vars(\E c \in solverCalls : SolverSendOk(c))
    /\ WF_vars(\E c \in solverCalls : SolverEncodeFail(c))
    /\ WF_vars(\E u \in Users : \E m \in inbox[u] : UserCallback(u, m))

(***************************************************************************)
(* The flow of requests and responses between services whose subscribe     *)
(* calls succeed and which stay up; nobody else publishes.                 *)
(***************************************************************************)
FlowNext ==
    \/ \E s \in Services : OnModuleInit(s)
    \/ \E s \in Services : RelayStarted(s)
    \/ \E s \in Services : PeersFound(s)
    \/ \E s \in Services : SubscribeOk(s)
    \/ \E u \in Users : SendRequestStart(u)
    \/ \E u \in Users : \E i \in 1..Len(sends[u]) :
            \E light \in {"none", "open"} : SendRequestConnectFail(u, i, light)
    \/ \E u \in Users : \E i \in 1..Len(sends[u]) : SendRequestPushed(u, i)
    \/ \E u \in Users : \E i \in 1..Len(sends[u]) : SendRequestFail(u, i)
    \/ \E u \in Users : \E i \in 1..Len(sends[u]) : SendRequestOk(u, i)
    \/ \E u \in Users : \E i \in 1..Len(sends[u]) : SendRequestStopFail(u, i)
    \/ \E u \in Users : \E m \in inbox[u] : UserCallback(u, m)
    \/ \E m \in inbox[Solver] : SolverCallback(m)
    \/ \E c \in solverCalls : \E answers \in ProtocolFeeds :
            \E draws \in ProtocolDraws : SolverPriced(c, answers, draws)
    \/ \E c \in solverCalls : \E light \in {"none", "open"} : SolverConnectFail(c, light)
    \/ \E c \in solverCalls : SolverEncodeFail(c)
    \/ \E c \in solverCalls : SolverPushed(c)
    \/ \E c \in solverCalls : SolverSendFail(c)
    \/ \E c \in solverCalls : SolverSendOk(c)
    \/ \E c \in solverCalls : SolverStopFail(c)

FlowSpec == Init /\ [][FlowNext]_vars

FlowLiveSpec == FlowSpec /\ ProtocolFairness


(***************************************************************************)
(* Several requests in flight at once: the two requesters send theirs, and *)
(* another requester process publishes a request with other tokens and     *)
(* networks, under a bucket of its own or under the bucket of u1.  The     *)
(* services come up in any order, and the substrate's calls succeed.       *)
(***************************************************************************)
OtherRequester == "other"
OtherBuckets == {"aaaaaaaa", "dddddddd"}

\* The request of the other requester process.
OtherRequest(b) ==
    [bucket |-> b,
     from   |-> [network |-> "base",
                 tokens  |-> << [address |-> "0xAAA", weight |-> Num(1000)] >>],
     to     |-> [network |-> "mainnet",
                 tokens  |-> << [address |-> "0xBBB", weight |-> Num(30)],
                                [address |-> "0xCCC", weight |-> Num(70)] >>]]

\* The other requester process publishes its request.
PublishRequest(b) ==
    /\ foreign < MaxForeign
    /\ Disturbances < MaxDisturbances
    /\ Subscribed(Solver)
    /\ foreign' = foreign + 1
    /\ LET payload == EncodeRequest(OtherRequest(b))
       IN  /\ pubLog' = pubLog \cup
                {Published(ForeignMid(foreign + 1), RequestTopic, payload, <<>>,
                           OtherRequester, FALSE)}
           /\ inbox' = Delivered(RequestTopic, ForeignMid(foreign + 1), payload)
    /\ UNCHANGED <<quote, identityVars, subscriptionVars, sends, solverCalls, userCalls,
                   rejections, early>>

ConcurrentNext ==
    \/ \E s \in Services : OnModuleInit(s)
    \/ \E s \in Services : RelayStarted(s)
    \/ \E s \in Services : PeersFound(s)
    \/ \E s \in Services : SubscribeOk(s)
    \/ \E b \in OtherBuckets : PublishRequest(b)
    \/ \E u \in Users : SendRequestStart(u)
    \/ \E u \in Users : \E i \in 1..Len(sends[u]) : SendRequestPushed(u, i)
    \/ \E u \in Users : \E i \in 1..Len(sends[u]) : SendRequestOk(u, i)
    \/ \E u \in Users : \E m \in inbox[u] : UserCallback(u, m)
    \/ \E m \in inbox[Solver] : SolverCallback(m)
    \/ \E c \in solverCalls : \E answers \in ProtocolFeeds :
            \E draws \in ProtocolDraws : SolverPriced(c, answers, draws)
    \/ \E c \in solverCalls : SolverEncodeFail(c)
    \/ \E c \in solverCalls : SolverPushed(c)
    \/ \E c \in solverCalls : SolverSendOk(c)

ConcurrentSpec == Init /\ [][ConcurrentNext]_vars

ConcurrentLiveSpec == ConcurrentSpec /\ ProtocolFairness

(***************************************************************************)
(* processMessage on its own: any request of the bounded shapes below,     *)
(* any answers of the price feed, any fee draws.                           *)
(***************************************************************************)
\* The i-th source token has address SourceAddresses[i], the i-th
\* destination token DestinationAddresses[i].
SourceAddresses == <<"0xAAA", "0xDDD", "0xEEE">>
DestinationAddresses == <<"0xBBB", "0xCCC", "0xFFF">>
SourceWeights == {Num(1), Num(1000)}
DestinationWeights == {Num(30), Num(70), Num(100)}

\* The answers the feed can give for an address.
AnswersFor(address) ==
    CASE address = "0xAAA" -> {FeedAbsent, FeedPrice(Num(0)), FeedPrice(Num(1)),
                               FeedPrice(Num(3))}
      [] address = "0xBBB" -> {FeedAbsent, FeedPrice(Num(0)), FeedPrice(Num(2))}
      [] address = "0xCCC" -> {FeedError, FeedPrice(Num(5))}
      [] OTHER             -> {FeedError, FeedPrice(Num(2))}

TokenLists(addresses, weights, lengths) ==
    UNION {{[i \in 1..n |-> [address |-> addresses[i], weight |-> w[i]]] :
                w \in [1..n -> weights]} : n \in lengths}

PricingRequests ==
    {[bucket |-> "ab12cd34",
      from   |-> [network |-> "mainnet", tokens |-> f],
      to     |-> [network |-> "base", tokens |-> t]] :
        f \in TokenLists(SourceAddresses, SourceWeights, 1..MaxFromTokens),
        t \in TokenLists(DestinationAddresses, DestinationWeights, 0..MaxToTokens)}

\* The feed's answers to the lookups of the given addresses, in order.
RECURSIVE FeedsFor(_)
FeedsFor(addresses) ==
    IF Len(addresses) = 0 THEN {<<>>}
    ELSE LET n == Len(addresses)
         IN  {Append(a, x) : a \in FeedsFor(SubSeq(addresses, 1, n - 1)),
                             x \in AnswersFor(addresses[n])}

PricingInit ==
    /\ Constructed
    /\ quote \in {[pc |-> "request", request |-> r] : r \in PricingRequests}

\* processMessage(request) runs to its end.
Quote(answers, draws) ==
    /\ quote.pc = "request"
    /\ LET fees == [i \in DOMAIN draws |-> getRandomFeePercentage(draws[i])]
       IN  quote' = [pc      |-> "quoted",
                     request |-> quote.request,
                     answers |-> answers,
                     fees    |-> fees,
                     result  |-> processMessage(quote.request, answers, fees,
                                                wallet[Solver])]
    /\ UNCHANGED <<identityVars, subscriptionVars, sends, inbox, solverCalls,
                   userCalls, pubLog, foreign, rejections, early>>

PricingNext ==
    \E answers \in FeedsFor(extractTokenAddresses(quote.request)) :
        \E draws \in [1..Len(quote.request.to.tokens) -> RandomDraws(FeeSteps)] :
            Quote(answers, draws)

PricingSpec == PricingInit /\ [][PricingNext]_vars

(***************************************************************************)
(* The codec on its own: any request or response of the bounded shapes     *)
(* below is encoded, and the bytes are decoded as the callbacks do.        *)
(***************************************************************************)
\* Weights and amounts: zero, an integer, a number with a fraction.
CodecNumbers == {Num(0), Num(30), Rat(2997, 20)}

CodecRequests ==
    {[bucket |-> "ab12cd34",
      from   |-> [network |-> "mainnet", tokens |-> f],
      to     |-> [network |-> "base", tokens |-> t]] :
        f \in TokenLists(SourceAddresses, CodecNumbers, 0..MaxFromTokens),
        t \in TokenLists(DestinationAddresses, CodecNumbers, 0..MaxToTokens)}

\* The token list of a response with the addresses and numbers of a
\* request's token list.
AsAmounts(tokens) ==
    [i \in 1..Len(tokens) |-> [address |-> tokens[i].address,
                               amount  |-> tokens[i].weight]]

CodecResponses ==
    {[solver |-> wallet[Solver],
      from   |-> [network |-> r.from.network, tokens |-> AsAmounts(r.from.tokens)],
      to     |-> [network |-> r.to.network, tokens |-> AsAmounts(r.to.tokens)]] :
        r \in CodecRequests}

CodecInit ==
    /\ Constructed
    /\ quote \in {[pc |-> "request", value |-> r] : r \in CodecRequests}
            \cup {[pc |-> "response", value |-> s] : s \in CodecResponses}

\* sendRequest encodes a request, SolverService.callback decodes it.
RoundTripRequest ==
    /\ quote.pc = "request"
    /\ quote' = [pc      |-> "request decoded",
                 value   |-> quote.value,
                 decoded |-> DecodeRequest(EncodeRequest(quote.value))]
    /\ UNCHANGED <<identityVars, subscriptionVars, sends, inbox, solverCalls,
                   userCalls, pubLog, foreign, rejections, early>>

\* sendResponse encodes a response, UserService.callback decodes it.
RoundTripResponse ==
    /\ quote.pc = "response"
    /\ quote' = [pc      |-> "response decoded",
                 value   |-> quote.value,
                 decoded |-> DecodeResponse(EncodeResponse(quote.value))]
    /\ UNCHANGED <<identityVars, subscriptionVars, sends, inbox, solverCalls,
                   userCalls, pubLog, foreign, rejections, early>>

CodecNext == RoundTripRequest \/ RoundTripResponse

CodecSpec == CodecInit /\ [][CodecNext]_vars

(***************************************************************************)
(* getTokenPrices on its own: any list of addresses, with repetitions and  *)
(* in either case, and any answers of the feed.                            *)
(***************************************************************************)
LookupAddresses == {"0xAAA", "0xaaa", "0xBBB"}
LookupAnswers ==
    {FeedError, FeedAbsent, FeedEntryWithoutUsd, FeedPrice(Num(1)), FeedPrice(Num(2))}

\* The sequences over S of length n.
Tuples(S, n) == [1..n -> S]

LookupInit ==
    /\ Constructed
    /\ quote \in {[pc |-> "addresses", addresses |-> a] :
                    a \in UNION {Tuples(LookupAddresses, n) : n \in 0..MaxAddresses}}

\* getTokenPrices(addresses) runs to its end.
Lookup(answers) ==
    /\ quote.pc = "addresses"
    /\ quote' = [pc        |-> "prices",
                 addresses |-> quote.addresses,
                 answers   |-> answers,
                 prices    |-> getTokenPrices(quote.addresses, answers)]
    /\ UNCHANGED <<identityVars, subscriptionVars, sends, inbox, solverCalls,
                   userCalls, pubLog, foreign, rejections, early>>

LookupNext ==
    \E answers \in Tuples(LookupAnswers, Len(quote.addresses)) : Lookup(answers)

LookupSpec == LookupInit /\ [][LookupNext]_vars

(***************************************************************************)
(* Properties.                                                             *)
(***************************************************************************)
\* The price processMessage finds for the source token of call c.
SourcePriceOf(c) ==
    getPriceForAddress(
        getTokenPrices(extractTokenAddresses(c.request), c.answers),
        c.request.from.tokens[1].address)

\* The published messages that answer the request of call c.
ResponsesTo(c) == {m \in pubLog : m.by = Solver /\ m.re = c.mid}

\* The published request a published response answers.
RequestOf(m) == CHOOSE r \in pubLog : r.mid = m.re

\* C1: whenever sendRequest publishes a request, the requester's listening
\* subscription on its response topic is already Subscribed.
C1_ListeningWhenRequestPublished ==
    \A m \in pubLog : m.by \in Users => m.listening

\* C2: a request whose source token has no price in the lookup result gets
\* no Quote Response from processMessage, and the callback publishes
\* nothing for it: sendResponse never reaches its push.
C2_NoResponseWithoutSourcePrice ==
    \A c \in solverCalls :
        ("answers" \in DOMAIN c /\ Falsy(SourcePriceOf(c))) =>
            /\ c.response = Undefined
            /\ c.attempts = 0
            /\ ResponsesTo(c) = {}

C2_Witness ==
    \E c \in solverCalls :
        /\ "answers" \in DOMAIN c
        /\ Falsy(SourcePriceOf(c))
        /\ c.pc = "threw"

\* C3: every response the solver publishes for a request r is published on
\* /iLayer/1/<r.bucket>/proto and on no other topic, so that with distinct
\* buckets a requester's callback only gets responses computed from
\* requests that carry its own bucket.
C3_ResponseOnBucketTopic ==
    /\ \A m \in pubLog : m.by = Solver =>
            /\ \E r \in pubLog : r.mid = m.re /\ r.by \in Users
            /\ m.topic = "/iLayer/1/" \o RequestOf(m).payload.bucket \o "/proto"
            /\ \A n \in pubLog : n.mid = m.mid => n = m
    /\ (bucket["u1"] # bucket["u2"]) =>
            \A uc \in userCalls : uc.surfaced # Undefined =>
                \E m \in pubLog :
                    /\ m.mid = uc.mid
                    /\ RequestOf(m).payload.bucket = bucket[uc.user]
                    /\ RequestOf(m).by = uc.user

C3_Witness ==
    /\ bucket["u1"] # bucket["u2"]
    /\ \A u \in Users : \E uc \in userCalls : uc.user = u /\ uc.surfaced # Undefined

\* C4: every failure raised while a received message is processed stays in
\* that callback invocation: no error leaves UserService.callback or
\* SolverService.callback.
C4_NoErrorLeavesCallback ==
    /\ \A c \in solverCalls : c.pc # "threw"
    /\ \A uc \in userCalls : uc.outcome # "threw"

\* C5: a service that has a subscribe call in flight or a retry timer
\* pending, and is not shut down, reaches Subscribed in the end, however
\* many subscribe calls failed before.
C5_EventuallySubscribed ==
    \A s \in Services :
        (inflight[s] > 0 \/ timers[s] # <<>>) ~> (Subscribed(s) \/ node[s] = "stopped")

C5_Witness ==
    \E s \in Services : Subscribed(s) /\ fails[s] = MaxFails

\* C6: a service has at most one successful subscribe call, it makes no
\* subscribe attempt and holds no retry timer after a success, and every
\* message its node received invokes the callback once.
C6_OneSubscription ==
    /\ \A s \in Services :
        /\ okCount[s] <= 1
        /\ subs[s] <= 1
        /\ okCount[s] >= 1 => (inflight[s] = 0 /\ timers[s] = <<>>)
        /\ \A m \in inbox[s] : m.copy = 1
    /\ \A c \in solverCalls : c.copy = 1
    /\ \A uc \in userCalls : uc.copy = 1

C6_Witness ==
    /\ fails[Solver] > 0
    /\ okCount[Solver] = 1
    /\ \E c \in solverCalls : c.pc = "pricing"

\* C7: a failed subscribe call leaves the service Unsubscribed, lets
\* onModuleInit return, and leaves exactly one retry timer; the retry does
\* not start before RetryDelayMs have passed since the failure.
C7_RetryAfterDelay ==
    [][\A s \in Services :
        /\ (inflight'[s] = inflight[s] - 1 /\ okCount'[s] = okCount[s]) =>
                /\ subs'[s] = 0
                /\ initPc'[s] = "returned"
                /\ Len(timers'[s]) = 1
        /\ (inflight'[s] = inflight[s] + 1 /\ initPc[s] = "returned") =>
                waited[s] >= RetryDelayMs]_vars

C7_Witness ==
    \E s \in Services :
        /\ initPc[s] = "returned"
        /\ inflight[s] = 1
        /\ okCount[s] = 0
        /\ node[s] = "started"

\* C8: a request delivered to the solver while its requester is Subscribed
\* leads to the requester's callback being invoked with the decoded Quote
\* Response for it, unless the source price is unknown or the push of the
\* response fails.
Answered(u, i) ==
    \E uc \in userCalls :
        /\ uc.user = u
        /\ uc.mid = <<"response", RequestMid(u, i), 1>>
        /\ uc.outcome = "returned"
        /\ uc.surfaced # Undefined

\* The solver's callback for the request ended in an error with no
\* response out: the source price was missing, or the light node or the
\* push of the response failed.
Excused(u, i) ==
    \E c \in solverCalls :
        c.mid = RequestMid(u, i) /\ c.pc = "threw" /\ ResponsesTo(c) = {}

C8_RequestAnswered ==
    \A u \in Users : \A i \in 1..MaxSends :
        ((\E m \in inbox[Solver] : m.mid = RequestMid(u, i)) /\ Subscribed(u))
            ~> (Answered(u, i) \/ Excused(u, i))

C8_Witness ==
    \E u \in Users : Answered(u, 1)

\* C9: an invocation of sendRequest pushes at most once, on the request
\* topic only; after a rejected push it pushes no more and nothing of it
\* is published.
C9_SendRequestOnce ==
    /\ [](\A u \in Users : \A i \in 1..Len(sends[u]) :
            /\ sends[u][i].attempts <= 1
            /\ Cardinality({m \in pubLog : m.mid = RequestMid(u, i)})
                    <= sends[u][i].attempts)
    /\ [](\A m \in pubLog : m.by \in Users => m.topic = "/iLayer/1/rfq/proto")
    /\ [](\A u \in Users : Cardinality({m \in pubLog : m.by = u}) <= Len(sends[u]))
    /\ [][\A u \in Users : \A i \in 1..Len(sends[u]) :
            /\ (sends[u][i].pc = "connecting" /\ sends'[u][i].pc = "threw") =>
                    (pubLog' = pubLog /\ inbox' = inbox)
            /\ sends[u][i].pc = "threw" =>
                    /\ sends'[u][i] = sends[u][i]
                    /\ \A m \in pubLog' \ pubLog : m.mid # RequestMid(u, i)]_vars

\* The push of an invocation was rejected while the solver was not
\* Subscribed: the invocation has ended and nothing of it is published.
C9_Witness ==
    \E u \in Users : \E i \in 1..Len(sends[u]) :
        /\ sends[u][i].pc = "threw"
        /\ sends[u][i].attempts = 1
        /\ \A m \in pubLog : m.mid # RequestMid(u, i)
        /\ ~Subscribed(Solver)


\* Whether the call of processMessage held in quote returned a response.
Quoted == quote.pc = "quoted" /\ "solver" \in DOMAIN quote.result

\* The feed's answer to the lookup of the i-th destination token.
DestinationAnswer(i) == quote.answers[Len(quote.request.from.tokens) + i]

Priced(answer) == answer.status = "price" /\ answer.usd.n # 0

\* The request of the worked scenario: 1000 units of 0xAAA for 0xBBB at
\* weight 30 and 0xCCC at weight 70, priced 1, 2 and 5.
ScenarioQuoted ==
    /\ Quoted
    /\ quote.request.from.tokens = <<[address |-> "0xAAA", weight |-> Num(1000)]>>
    /\ quote.request.to.tokens = << [address |-> "0xBBB", weight |-> Num(30)],
                                    [address |-> "0xCCC", weight |-> Num(70)] >>
    /\ quote.answers = <<FeedPrice(Num(1)), FeedPrice(Num(2)), FeedPrice(Num(5))>>

\* The amounts of the quote held in quote, before the fee is taken off.
AmountsBeforeFee ==
    [i \in 1..Len(quote.result.to.tokens) |->
        RDiv(quote.result.to.tokens[i].amount, RSub(Num(1), quote.fees[i]))]

\* The general rule of C10: (W * P_s * w / 100 / P_d) * (1 - fee) for every
\* priced destination token, each on its own.
DestinationAmountRule ==
    Quoted =>
        \A i \in 1..Len(quote.request.to.tokens) :
            Priced(DestinationAnswer(i)) =>
                LET W   == quote.request.from.tokens[1].weight
                    P_s == quote.answers[1].usd
                    w   == quote.request.to.tokens[i].weight
                    P_d == DestinationAnswer(i).usd
                    q   == RDiv(RDiv(RMul(RMul(W, P_s), w), Num(100)), P_d)
                IN  /\ quote.result.to.tokens[i].amount =
                            RMul(q, RSub(Num(1), quote.fees[i]))
                    /\ w = Num(100) => AmountsBeforeFee[i] = RDiv(RMul(W, P_s), P_d)

\* C10: with source weight W at price P_s, a destination token of weight w
\* and price P_d gets (W * P_s * w / 100 / P_d) * (1 - fee), whatever the
\* other destination tokens are and whatever the weights sum to; with
\* w = 100 the amount before the fee is (W * P_s) / P_d, and W = 1000,
\* prices 1/2/5 and weights 30 and 70 give 150 and 140 before the fee.
C10_DestinationAmount ==
    /\ DestinationAmountRule
    /\ ScenarioQuoted => AmountsBeforeFee = <<Num(150), Num(140)>>
    /\ computeUpdatedToTokens(
            << [address |-> "0xBBB", weight |-> Num(30)],
               [address |-> "0xCCC", weight |-> Num(70)] >>,
            RMul(Num(1000), Num(1)),
            << [address |-> "0xaaa", price |-> Num(1)],
               [address |-> "0xbbb", price |-> Num(2)],
               [address |-> "0xccc", price |-> Num(5)] >>,
            <<Num(0), Num(0)>>)
        = << [address |-> "0xBBB", amount |-> Num(150)],
             [address |-> "0xCCC", amount |-> Num(140)] >>

\* C10 as stated: the same rule, with the worked scenario giving 150 and 70.
C10_AsStated ==
    /\ DestinationAmountRule
    /\ ScenarioQuoted => AmountsBeforeFee = <<Num(150), Num(70)>>

\* The worked scenario quoted with two different fees.
C10_Witness ==
    /\ ScenarioQuoted
    /\ quote.fees[1] # quote.fees[2]
    /\ quote.result.to.tokens[1].amount = RMul(Num(150), RSub(Num(1), quote.fees[1]))
    /\ quote.result.to.tokens[2].amount = RMul(Num(140), RSub(Num(1), quote.fees[2]))

\* The quote of the request held in quote had the feed priced the i-th
\* destination token at p.
QuoteWithDestinationPriced(i, p) ==
    processMessage(quote.request,
                   [quote.answers EXCEPT ![Len(quote.request.from.tokens) + i] =
                        FeedPrice(p)],
                   quote.fees, wallet[Solver])

\* C11: when the source price is known, the response has one to.tokens
\* entry per requested destination token, in request order; a destination
\* token the feed gave no price for has amount 0, and the other amounts
\* are what they would be had the feed priced it.
C11_UnpricedDestinationIsZero ==
    (quote.pc = "quoted" /\ ~Falsy(SourcePriceOf(quote))) =>
        /\ Quoted
        /\ Len(quote.result.to.tokens) = Len(quote.request.to.tokens)
        /\ \A i \in 1..Len(quote.request.to.tokens) :
            /\ quote.result.to.tokens[i].address = quote.request.to.tokens[i].address
            /\ DestinationAnswer(i).status # "price" =>
                /\ quote.result.to.tokens[i].amount = Num(0)
                /\ \A j \in 1..Len(quote.request.to.tokens) : j # i =>
                        quote.result.to.tokens[j].amount =
                            QuoteWithDestinationPriced(i, Num(7)).to.tokens[j].amount

\* A quote for two destination tokens of which the feed priced the second
\* only.
C11_Witness ==
    /\ Quoted
    /\ Len(quote.request.to.tokens) = 2
    /\ DestinationAnswer(1).status # "price"
    /\ DestinationAnswer(2) = FeedPrice(Num(5))
    /\ quote.result.to.tokens[1].amount = Num(0)
    /\ quote.result.to.tokens[2].amount.n > 0

\* The quantity of the i-th destination token of the quote before the fee.
PreFeeQuantity(i) ==
    RDiv(RDiv(RMul(RMul(quote.request.from.tokens[1].weight, quote.answers[1].usd),
                   quote.request.to.tokens[i].weight),
              Num(100)),
         DestinationAnswer(i).usd)

\* C12: the fee of every priced destination token lies in [0.001, 0.01],
\* and its amount a satisfies 0.99 * q <= a <= 0.999 * q for the quantity
\* q > 0 before the fee.
C12_FeeWithinRange ==
    Quoted =>
        \A i \in 1..Len(quote.request.to.tokens) :
            Priced(DestinationAnswer(i)) =>
                LET q == PreFeeQuantity(i)
                    a == quote.result.to.tokens[i].amount
                IN  /\ RLeq(Rat(1, 1000), quote.fees[i])
                    /\ RLeq(quote.fees[i], Rat(1, 100))
                    /\ q.n > 0 =>
                        /\ RLeq(RMul(Rat(99, 100), q), a)
                        /\ RLeq(a, RMul(Rat(999, 1000), q))

\* A quote of two priced destination tokens, one at the smallest fee and
\* one at a larger fee.
C12_Witness ==
    /\ Quoted
    /\ Len(quote.request.to.tokens) = 2
    /\ \A i \in 1..2 : Priced(DestinationAnswer(i)) /\ PreFeeQuantity(i).n > 0
    /\ quote.fees[1] = Rat(1, 1000)
    /\ quote.result.to.tokens[1].amount = RMul(Rat(999, 1000), PreFeeQuantity(1))
    /\ quote.fees[2] # Rat(1, 1000)
    /\ quote.result.to.tokens[2].amount # RMul(Rat(999, 1000), PreFeeQuantity(2))

\* C13: a response of processMessage carries the request's two networks,
\* one from.tokens entry per source token of the request, in order, with
\* the token's address and its weight as amount, and the public key of the
\* solver's wallet as solver.
C13_ResponseEchoesRequest ==
    Quoted =>
        /\ quote.result.from.network = quote.request.from.network
        /\ quote.result.to.network = quote.request.to.network
        /\ Len(quote.result.from.tokens) = Len(quote.request.from.tokens)
        /\ \A i \in 1..Len(quote.request.from.tokens) :
            /\ quote.result.from.tokens[i].address = quote.request.from.tokens[i].address
            /\ quote.result.from.tokens[i].amount = quote.request.from.tokens[i].weight
        /\ quote.result.solver = wallet[Solver]

\* A response for two source tokens of different weights, the first at a
\* price other than 1.
C13_Witness ==
    /\ Quoted
    /\ Len(quote.request.from.tokens) = 2
    /\ quote.answers[1] = FeedPrice(Num(3))
    /\ quote.request.from.tokens[1].weight = Num(1000)
    /\ quote.request.from.tokens[2].weight = Num(1)
    /\ quote.result.from.tokens[1].amount = Num(1000)
    /\ quote.result.from.tokens[2].amount = Num(1)

\* A number with its fraction cut off.
Truncated(x) == Num(IF x.n >= 0 THEN x.n \div x.d ELSE -((-x.n) \div x.d))

\* A request or response side with every number truncated.
TruncatedSide(side, field) ==
    [network |-> side.network,
     tokens  |-> [i \in 1..Len(side.tokens) |->
                    [side.tokens[i] EXCEPT ![field] = Truncated(@)]]]

\* C14: decoding the encoding of a request or of a response gives the
\* value back on all its fields, empty token lists and zero numbers
\* included, with the fractions of its numbers cut off.
C14_CodecRoundTrip ==
    /\ quote.pc = "request decoded" =>
            quote.decoded = [quote.value EXCEPT
                                !.from = TruncatedSide(@, "weight"),
                                !.to   = TruncatedSide(@, "weight")]
    /\ quote.pc = "response decoded" =>
            quote.decoded = [quote.value EXCEPT
                                !.from = TruncatedSide(@, "amount"),
                                !.to   = TruncatedSide(@, "amount")]

\* C15: a light node opened by sendRequest or sendResponse pushes at most
\* once, and once the operation that opened it has ended (returned or
\* thrown) the light node is stopped.
C15_LightNodeTornDown ==
    /\ \A u \in Users : \A i \in 1..Len(sends[u]) :
        /\ sends[u][i].attempts <= 1
        /\ sends[u][i].pc \in {"returned", "threw"} =>
                sends[u][i].light \in {"none", "stopped"}
    /\ \A c \in solverCalls :
        /\ c.attempts <= 1
        /\ c.pc \in {"returned", "threw"} => c.light \in {"none", "stopped"}

\* C16: every request a requester published carries the bucket of the
\* topic the requester listens on, and no step changes a requester's
\* bucket or listening topic.
C16_BucketConstant ==
    /\ [](\A m \in pubLog : m.by \in Users =>
            contentTopics[m.by] =
                "/iLayer/1/" \o DecodeRequest(m.payload).bucket \o "/proto")
    /\ [][\A u \in Users : bucket'[u] = bucket[u]
                            /\ contentTopics'[u] = contentTopics[u]]_vars

\* A requester published a request after a subscribe retry and its
\* callback has run for the response.
C16_Witness ==
    \E u \in Users :
        /\ fails[u] > 0
        /\ \E m \in pubLog : m.by = u
        /\ \E uc \in userCalls : uc.user = u /\ uc.surfaced # Undefined

\* The lookups of the batch held in quote that gave a price.
Succeeded ==
    {i \in 1..Len(quote.addresses) :
        quote.answers[i].status = "price" /\ quote.answers[i].usd # Undefined}

\* C17: getTokenPrices returns one entry per lookup that gave a price, in
\* the order of the addresses, repetitions kept, each with the address in
\* lower case and the price of that lookup; the lookups that failed or
\* gave nothing are left out, wherever they are in the batch.
C17_PartialPrices ==
    quote.pc = "prices" =>
        /\ Len(quote.prices) = Cardinality(Succeeded)
        /\ \A i \in Succeeded :
            LET k == Cardinality({j \in Succeeded : j <= i})
            IN  /\ quote.prices[k].price = quote.answers[i].usd
                /\ quote.prices[k].address =
                        (IF quote.addresses[i] = "0xBBB" THEN "0xbbb" ELSE "0xaaa")

\* C18: a started service whose subscribe call succeeded is Subscribed,
\* whatever its callbacks did, and the only step that takes a service out
\* of Subscribed is onModuleDestroy stopping its node.
C18_SubscribedUntilDestroyed ==
    /\ [](\A s \in Services : (okCount[s] > 0 /\ node[s] = "started") => Subscribed(s))
    /\ [][\A s \in Services : (Subscribed(s) /\ subs'[s] = 0) =>
                (node[s] = "started" /\ node'[s] = "stopped")]_vars

\* The solver is Subscribed after one of its callbacks failed to price or
\* to push, and its own or a Subscribed requester's callback failed to
\* decode.
C18_Witness ==
    /\ Subscribed(Solver)
    /\ \E c \in solverCalls : c.pc = "threw" /\ "request" \in DOMAIN c
    /\ \/ \E c \in solverCalls : c.pc = "threw" /\ "request" \notin DOMAIN c
       \/ \E uc \in userCalls : uc.outcome = "threw" /\ Subscribed(uc.user)

\* The invocation of the solver's callback that published response m.
CallOf(m) == CHOOSE c \in solverCalls : c.mid = m.re

\* The calls of the solver's callback that are at one of their awaits.
InFlight == {c \in solverCalls : c.pc \in {"pricing", "connecting", "stopping"}}

\* C19: whatever the interleaving of the solver's callback invocations,
\* each published response is on the topic of its own request's bucket
\* and is the encoding of the quote of its own request (its tokens and
\* networks) at the prices its own lookup returned.
C19_ResponsesIsolated ==
    \A m \in pubLog : m.by = Solver =>
        LET request == DecodeRequest(RequestOf(m).payload)
        IN  /\ m.topic = "/iLayer/1/" \o request.bucket \o "/proto"
            /\ m.mid = <<"response", RequestOf(m).mid, 1>>
            /\ \E draws \in ProtocolDraws :
                m.payload = EncodeResponse(
                    processMessage(request, CallOf(m).answers,
                        [i \in DOMAIN draws |-> getRandomFeePercentage(draws[i])],
                        wallet[Solver]))
            /\ m.payload.from.network = request.from.network
            /\ m.payload.to.network = request.to.network
            /\ \A i \in 1..Len(request.to.tokens) :
                    m.payload.to.tokens[i].address = request.to.tokens[i].address

\* Three invocations overlap: one has published the response to the other
\* requester's request, one with another request is in sendResponse, one
\* is still in its price lookup.
C19_Witness ==
    \E c1 \in InFlight : \E c2 \in InFlight : \E m \in pubLog :
        /\ c1.pc = "pricing"
        /\ c2.pc = "connecting"
        /\ m.by = Solver
        /\ RequestOf(m).by = OtherRequester
        /\ DecodeRequest(RequestOf(m).payload).from # c2.request.from
        /\ m.topic # "/iLayer/1/" \o c2.request.bucket \o "/proto"

\* The invocations of requester u's callback.
CallsOf(u) == {uc \in userCalls : uc.user = u}

\* C20: every response that arrives at a requester is taken by one
\* invocation of its callback, which surfaces that response decoded and
\* changes nothing of the requester's state; no arrival is handled twice,
\* dropped or merged with another, and no arrival is left waiting for ever.
C20_OneCallPerArrival ==
    /\ [][\A u \in Users : \A m \in inbox[u] : m \notin inbox'[u] =>
            /\ CallsOf(u)' = CallsOf(u) \cup
                    {[user |-> u, mid |-> m.mid, copy |-> 1, outcome |-> "returned",
                      surfaced |-> DecodeResponse(m.payload)]}
            /\ Cardinality(CallsOf(u)') = Cardinality(CallsOf(u)) + 1
            /\ UNCHANGED <<identityVars, subscriptionVars, sends>>]_vars
    /\ [][\A u \in Users : CallsOf(u)' # CallsOf(u) =>
            \E m \in inbox[u] : inbox'[u] = inbox[u] \ {m}]_vars
    /\ [](\A u \in Users : \A uc \in CallsOf(u) :
            /\ \A m \in inbox[u] : m.mid # uc.mid
            /\ \A other \in CallsOf(u) : other.mid = uc.mid => other = uc
            /\ \E m \in pubLog : /\ m.mid = uc.mid
                                 /\ m.topic = contentTopics[u]
                                 /\ uc.surfaced = DecodeResponse(m.payload))
    /\ \A u \in Users : []<>(inbox[u] = {})

\* Three responses arrived at u1 (to its own request, to the request of u2
\* under the same bucket, and to the other requester's) and its callback
\* ran three times, twice surfacing equal values.
C20_Witness ==
    /\ Cardinality(CallsOf("u1")) = 3
    /\ \E a \in CallsOf("u1") : \E b \in CallsOf("u1") :
            a.mid # b.mid /\ a.surfaced = b.surfaced
    /\ inbox["u1"] = {}

\* The quote of the request held in quote with its k-th source token given
\* weight w and the feed answering a to that token's lookup.
QuoteWithSource(k, w, a) ==
    processMessage([quote.request EXCEPT !.from.tokens[k].weight = w],
                   [quote.answers EXCEPT ![k] = a],
                   quote.fees, wallet[Solver])

\* The quote of the request held in quote cut down to its first source
\* token.
QuoteOfFirstSource ==
    LET n == Len(quote.request.from.tokens)
    IN  processMessage(
            [quote.request EXCEPT !.from.tokens = SubSeq(@, 1, 1)],
            <<quote.answers[1]>> \o SubSeq(quote.answers, n + 1, Len(quote.answers)),
            quote.fees, wallet[Solver])

\* C21: the to.tokens of a response are those of the request with its
\* first source token alone, and stay the same under any other weight of,
\* or answer of the feed for, a source token after the first; every source
\* token is echoed in from.tokens.
C21_FirstSourceTokenOnly ==
    Quoted =>
        /\ quote.result.to.tokens = QuoteOfFirstSource.to.tokens
        /\ \A k \in 2..Len(quote.request.from.tokens) :
            /\ \A w \in SourceWeights :
                \A a \in AnswersFor(quote.request.from.tokens[k].address) :
                    QuoteWithSource(k, w, a).to.tokens = quote.result.to.tokens
            /\ quote.result.from.tokens[k] =
                    [address |-> quote.request.from.tokens[k].address,
                     amount  |-> quote.request.from.tokens[k].weight]

\* A quote for two source tokens, the second priced and a thousand times
\* the first in weight, with a priced destination token.
C21_Witness ==
    /\ Quoted
    /\ Len(quote.request.from.tokens) = 2
    /\ quote.request.from.tokens[1].weight = Num(1)
    /\ quote.request.from.tokens[2].weight = Num(1000)
    /\ quote.answers[2] = FeedPrice(Num(2))
    /\ Len(quote.request.to.tokens) > 0
    /\ quote.result.to.tokens[1].amount.n > 0
    /\ Len(quote.result.from.tokens) = 2

\* C22: a service has at most one subscribe call in flight or one retry
\* timer pending, never both; a timer appears only when a call in flight
\* fails, and a call starts only in onModuleInit or when the pending timer
\* runs.
C22_OneAttemptOrTimer ==
    /\ [](\A s \in Services : inflight[s] + Len(timers[s]) <= 1)
    /\ [][\A s \in Services :
            /\ Len(timers'[s]) > Len(timers[s]) =>
                    (inflight[s] = 1 /\ inflight'[s] = 0 /\ okCount'[s] = okCount[s])
            /\ inflight'[s] > inflight[s] =>
                    \/ (initPc[s] = "boot" /\ initPc'[s] = "listening")
                    \/ (Len(timers[s]) = 1 /\ timers'[s] = <<>>)]_vars

\* One service waits on its retry timer while the retry of another is in
\* flight.
C22_Witness ==
    \E s \in Services : \E t \in Services :
        /\ s # t
        /\ fails[s] > 0 /\ Len(timers[s]) = 1 /\ inflight[s] = 0
        /\ fails[t] > 0 /\ timers[t] = <<>> /\ inflight[t] = 1

\* C23: once onModuleDestroy has stopped a service's node, the service has
\* no retry timer pending and starts no subscribe call.
C23_QuietAfterDestroy ==
    /\ [](\A s \in Services : node[s] = "stopped" => timers[s] = <<>>)
    /\ [][\A s \in Services : node[s] = "stopped" => inflight'[s] <= inflight[s]]_vars

\* The quote of the request held in quote had the feed given no price at
\* its k-th lookup.
QuoteWithoutPrice(k) ==
    processMessage(quote.request, [quote.answers EXCEPT ![k] = FeedAbsent],
                   quote.fees, wallet[Solver])

\* C24: a price of 0 is handled like no price: with a source price of 0
\* processMessage returns no response, a destination token priced 0 gets
\* amount 0, in both cases as if the feed had given no price; nothing is
\* divided by 0, so every amount of a response is a finite number, also as
\* encoded.
C24_ZeroPriceLikeMissing ==
    quote.pc = "quoted" =>
        /\ quote.answers[1] = FeedPrice(Num(0)) =>
                (quote.result = Undefined /\ QuoteWithoutPrice(1) = Undefined)
        /\ Quoted =>
            \A i \in 1..Len(quote.request.to.tokens) :
                /\ IsFinite(quote.result.to.tokens[i].amount)
                /\ IsFinite(EncodeResponse(quote.result).to.tokens[i].amount)
                /\ DestinationAnswer(i) = FeedPrice(Num(0)) =>
                    /\ quote.result.to.tokens[i].amount = Num(0)
                    /\ QuoteWithoutPrice(Len(quote.request.from.tokens) + i) = quote.result

\* A quote in which the first destination token is priced 0 and the second
\* has a price.
C24_Witness ==
    /\ Quoted
    /\ Len(quote.request.to.tokens) = 2
    /\ DestinationAnswer(1) = FeedPrice(Num(0))
    /\ DestinationAnswer(2) = FeedPrice(Num(5))
    /\ quote.result.to.tokens[1].amount = Num(0)
    /\ quote.result.to.tokens[2].amount.n > 0

====
